---- MODULE Spec2Model ----
(***************************************************************************)
(* Matchmaking and session lifecycle of the voice chat server (app.py).    *)
(*                                                                         *)
(* The server runs with async_mode='threading': every Socket.IO event      *)
(* handler and every background task (check_timeout) is a thread of its    *)
(* own, and the module globals waiting_queue and active_sessions and the   *)
(* VoiceSession table are shared without any lock.  A thread is modelled   *)
(* as a sequence of steps, one per statement that reads or writes shared   *)
(* state.  Two statements are more than one step:                          *)
(*   waiting_queue = deque([u for u in waiting_queue if ...])              *)
(*     reads the deque (the step that starts the handler, or Begin) and    *)
(*     later rebinds the global to the new deque (Store);                  *)
(*   waiting_queue.append({... request.sid ... time.time()})               *)
(*     loads the deque object bound to the global (Load), evaluates the    *)
(*     argument, and then appends to the object it loaded (Append): the    *)
(*     entry is lost if the global was rebound in between.                 *)
(* A deque mutated in place while a comprehension iterates it raises       *)
(* RuntimeError in the iterating thread, which ends before it has changed  *)
(* anything; such a thread leaves the same states as one that is never     *)
(* scheduled again and is not modelled apart.                              *)
(*                                                                         *)
(* The steps after a thread has committed its session row and before its   *)
(* last emit touch only that session's own rows and the event log; they    *)
(* commute with every step of the other threads, and run without           *)
(* preemption (Urgent).                                                    *)
(*                                                                         *)
(* Spec lets up to MaxConc threads run interleaved; SpecAtomic runs one    *)
(* handler (or timeout task) at a time, each to completion.                *)
(***************************************************************************)
EXTENDS Integers, Sequences, FiniteSets, TLC

\* ---------------------------------------------------------------- bounds
NumUsers   == 3    \* registered users 1..NumUsers
MaxOps     == 3    \* handler invocations in one run
MaxJoins   == 3    \* join_queue calls among them
MaxRemoves == 1    \* cancel_search, disconnect and logout calls among them
MaxEnds    == 2    \* end_session calls among them
MaxConc    == 2    \* threads running at the same time under Spec

Users == 1 .. NumUsers
Conns == {1, 2}                      \* connections (browser tabs) of a user
Ops   == 1 .. MaxOps

NoUser    == 0                       \* None in user2_id
NoAttempt == 0                       \* no waiting entry
NoSession == 0                       \* a session_id that names no session
Missing   == -1                      \* data.get('session_id') is None

VARIABLES
    waiting_queue,    \* contents of the deque bound to the global waiting_queue
    active_sessions,  \* the dict active_sessions: session_id -> record
    sessions,         \* rows of the VoiceSession table: session_id -> record
    events,           \* every event emitted so far (Notifier)
    deleted,          \* room_name -> number of delete_daily_room requests
    clock,            \* datetime.utcnow()
    thr,              \* handler threads: op id -> locals and position
    tmr,              \* check_timeout tasks, by the op id of the join that started it
    nextOp,           \* next unused op id
    arrivals,         \* number of append calls so far (arrival stamps)
    basis             \* session_id -> the waiting entry (attempt) it was created on

vars == <<waiting_queue, active_sessions, sessions, events, deleted, clock,
          thr, tmr, nextOp, arrivals, basis>>

\* ------------------------------------------------------- data and helpers

\* User.username: unique per user.
Username(u) == <<"user", u>>

\* request.sid of connection c of user u
Sid(u, c) == <<u, c>>

\* The dict appended to waiting_queue.  att and seq are history fields: the id
\* of the join_queue call that built the entry, and its arrival stamp.
Entry(u, s, a, n) ==
    [user_id |-> u, username |-> Username(u), sid |-> s, att |-> a, seq |-> n]

NoEntry == Entry(NoUser, Sid(NoUser, 1), NoAttempt, 0)

\* [u for u in waiting_queue if u['user_id'] != user_id]
FilterOut(q, uid) == SelectSeq(q, LAMBDA e : e.user_id # uid)

\* any(u['user_id'] == user_id for u in waiting_queue)
UserInQueue(q, uid) == \E i \in 1 .. Len(q) : q[i].user_id = uid

\* the element any() stops at
FirstOf(q, uid) ==
    LET i == CHOOSE j \in 1 .. Len(q) :
                 /\ q[j].user_id = uid
                 /\ \A m \in 1 .. (j - 1) : q[m].user_id # uid
    IN  q[i]

\* a faulty variant of popleft(): pop(), the newest entry
PopRightElem(q) == q[Len(q)]

\* deque.popleft(): the element returned and the deque left
PopLeftElem(q) == Head(q)
PopLeftRest(q) == Tail(q)

\* deque.append(x)
AppendRight(q, x) == Append(q, x)

\* secrets.token_urlsafe(16): fresh per call; the op id of the creating call
SessionId(k) == k
\* f"room{secrets.token_hex(8)}" and f"ai{secrets.token_hex(8)}"
RoomName(prefix, k) == <<prefix, k>>

\* a faulty variant: a failed creation yields no usable URL
create_daily_room_NoFallback(room_name, outcome) ==
    IF outcome = "ok"
    THEN [room_url |-> <<"api", room_name>>, room_name |-> room_name]
    ELSE [room_url |-> <<"error">>, room_name |-> room_name]

\* create_daily_room(room_name): (room_url, room_name).  outcome is what the
\* Daily API did: "ok" (status 200), or "error" (no key, error status, exception).
create_daily_room(room_name, outcome) ==
    IF outcome = "ok"
    THEN [room_url |-> <<"api", room_name>>, room_name |-> room_name]
    ELSE [room_url |-> <<"https", "DAILY_DOMAIN", room_name>>, room_name |-> room_name]

\* VoiceSession(...) row
VoiceSession(sid, room, u1, u2, ai) ==
    [session_id |-> sid, room_name |-> room.room_name, room_url |-> room.room_url,
     user1_id |-> u1, user2_id |-> u2, is_ai_session |-> ai,
     status |-> "active", ended_at |-> 0]

\* the dict stored in active_sessions by a pairing
PairRecord(partner, user_id, room_name, room_url) ==
    [user1_id |-> partner.user_id, user2_id |-> user_id,
     room_name |-> room_name, room_url |-> room_url]

\* the dict stored in active_sessions by a timeout
AiRecord(user_id, room_name, room_url) ==
    [user1_id |-> user_id, user2_id |-> NoUser,
     room_name |-> room_name, room_url |-> room_url, is_ai |-> TRUE]

\* the `matched` payloads
PartnerPayload(session_id, room_url, username) ==
    [session_id |-> session_id, room_url |-> room_url, is_ai |-> FALSE,
     partner_name |-> username]
SelfPayload(session_id, room_url, partner) ==
    [session_id |-> session_id, room_url |-> room_url, is_ai |-> FALSE,
     partner_name |-> partner.username]
AiPayload(session_id, room_url) ==
    [session_id |-> session_id, room_url |-> room_url, is_ai |-> TRUE]

\* Notifier: one emitted event.  op and att are history fields: the call that
\* emitted it and the queue attempt it answers.
Event(to, name, k, a, payload) ==
    [to |-> to, name |-> name, op |-> k, att |-> a, payload |-> payload]

RemoveKey(f, key) == [x \in (DOMAIN f) \ {key} |-> f[x]]

\* ------------------------------------------------------------- threads

\* seen is a history field: the waiting entry a cancel_search found and removes
IdleThr == [kind |-> "none", user |-> NoUser, sid |-> Sid(NoUser, 1), arg |-> NoSession,
            pc |-> "idle", newq |-> <<>>, partner |-> NoEntry, stale |-> FALSE,
            seen |-> NoAttempt, ret |-> TRUE, exc |-> "none"]

IdleTmr == [pc |-> "none", newq |-> <<>>, user_in_queue |-> FALSE,
            seen |-> NoAttempt]

Running(k)      == thr[k].pc \notin {"idle", "done"}
TimerRunning(k) == tmr[k].pc \notin {"none", "sleep", "done"}

InFlight == Cardinality({k \in Ops : Running(k)})
          + Cardinality({k \in Ops : TimerRunning(k)})

\* a thread that ends: its locals are dead
Finish(t, e) == [t EXCEPT !.pc = "done", !.newq = <<>>, !.partner = NoEntry,
                          !.stale = FALSE, !.seen = NoAttempt, !.ret = TRUE, !.exc = e]
FinishTmr(t) == [t EXCEPT !.pc = "done", !.newq = <<>>]

\* The global is rebound: a thread that has loaded the old deque object for
\* its append now holds an object nobody will read.
Rebound(t) ==
    [j \in Ops |-> IF t[j].pc = "append" THEN [t[j] EXCEPT !.stale = TRUE] ELSE t[j]]

\* Steps that touch only the thread's own session rows and the event log run
\* without preemption.
UrgentThr == {k \in Ops : thr[k].pc \in {"active", "emit_partner", "emit_self",
                                         "emit_cancelled", "e_delete", "e_emit"}}
UrgentTmr == {k \in Ops : tmr[k].pc \in {"t_active", "t_emit"}}
MayStepThr(k) == UrgentThr \subseteq {k} /\ UrgentTmr = {}
MayStepTmr(k) == UrgentTmr \subseteq {k} /\ UrgentThr = {}

\* calls of one kind so far
Calls(kinds) == Cardinality({k \in Ops : thr[k].kind \in kinds})
Budget(kind) ==
    CASE kind = "join" -> Calls({"join"}) < MaxJoins
      [] kind = "end"  -> Calls({"end"}) < MaxEnds
      [] OTHER         -> Calls({"cancel", "disconnect", "logout"}) < MaxRemoves

\* Users and connections are interchangeable: the first call of a run is user
\* 1's, user u+1 appears after user u, and a user's connection 2 after its 1.
MayUse(u, c) ==
    /\ u = 1 \/ \E k \in Ops : thr[k].user = u - 1
    /\ c = 1 \/ \E k \in Ops : thr[k].sid = Sid(u, 1)

\* a new handler thread may start (at most K run at a time)
MayStart(K, kind, u, c) ==
    /\ nextOp <= MaxOps
    /\ Budget(kind)
    /\ InFlight < K
    /\ UrgentThr = {} /\ UrgentTmr = {}
    /\ MayUse(u, c)

NewThr(kind, u, c, pc) ==
    [IdleThr EXCEPT !.kind = kind, !.user = u, !.sid = Sid(u, c), !.pc = pc]

Init ==
    /\ waiting_queue = <<>>
    /\ active_sessions = <<>>
    /\ sessions = <<>>
    /\ events = {}
    /\ deleted = <<>>
    /\ clock = 1
    /\ thr = [k \in Ops |-> IdleThr]
    /\ tmr = [k \in Ops |-> IdleTmr]
    /\ nextOp = 1
    /\ arrivals = 0
    /\ basis = <<>>

\* ------------------------------------------------------ handle_join_queue

\* The call starts; [u for u in waiting_queue if u['user_id'] != user_id]
handle_join_queue_Start(K, u, c) ==
    /\ MayStart(K, "join", u, c)
    /\ thr' = [thr EXCEPT ![nextOp] =
                  [NewThr("join", u, c, "store") EXCEPT
                      !.newq = FilterOut(waiting_queue, u)]]
    /\ nextOp' = nextOp + 1
    /\ UNCHANGED <<waiting_queue, active_sessions, sessions, events, deleted, clock,
                   tmr, arrivals, basis>>

\* waiting_queue = deque(...): the global names the new deque
handle_join_queue_Store(k) ==
    /\ thr[k].kind = "join" /\ thr[k].pc = "store" /\ MayStepThr(k)
    /\ waiting_queue' = thr[k].newq
    /\ thr' = [Rebound(thr) EXCEPT ![k].pc = "len", ![k].newq = <<>>]
    /\ UNCHANGED <<active_sessions, sessions, events, deleted, clock, tmr, nextOp,
                   arrivals, basis>>

\* a faulty variant: if len(waiting_queue) > 1:
handle_join_queue_Len_OffByOne(k) ==
    /\ thr[k].kind = "join" /\ thr[k].pc = "len" /\ MayStepThr(k)
    /\ thr' = [thr EXCEPT ![k].pc = IF Len(waiting_queue) > 1 THEN "pop" ELSE "load"]
    /\ UNCHANGED <<waiting_queue, active_sessions, sessions, events, deleted, clock,
                   tmr, nextOp, arrivals, basis>>

\* if len(waiting_queue) > 0:
handle_join_queue_Len(k) ==
    /\ thr[k].kind = "join" /\ thr[k].pc = "len" /\ MayStepThr(k)
    /\ thr' = [thr EXCEPT ![k].pc = IF Len(waiting_queue) > 0 THEN "pop" ELSE "load"]
    /\ UNCHANGED <<waiting_queue, active_sessions, sessions, events, deleted, clock,
                   tmr, nextOp, arrivals, basis>>

\* partner = waiting_queue.popleft()   (IndexError on an empty deque)
handle_join_queue_Pop(k) ==
    /\ thr[k].kind = "join" /\ thr[k].pc = "pop" /\ MayStepThr(k)
    /\ IF Len(waiting_queue) = 0
       THEN /\ thr' = [thr EXCEPT ![k] = Finish(thr[k], "IndexError")]
            /\ UNCHANGED waiting_queue
       ELSE /\ waiting_queue' = PopLeftRest(waiting_queue)
            /\ thr' = [thr EXCEPT ![k].pc = "reg",
                                  ![k].partner = PopLeftElem(waiting_queue)]
    /\ UNCHANGED <<active_sessions, sessions, events, deleted, clock, tmr, nextOp,
                   arrivals, basis>>

\* session_id, room_name, create_daily_room, VoiceSession(...), db.session.commit()
handle_join_queue_Register(k) ==
    /\ thr[k].kind = "join" /\ thr[k].pc = "reg" /\ MayStepThr(k)
    /\ \E outcome \in {"ok", "error"} :
          LET room == create_daily_room(RoomName("room", k), outcome)
          IN  sessions' = sessions @@
                  (SessionId(k) :> VoiceSession(SessionId(k), room,
                                       thr[k].partner.user_id, thr[k].user, FALSE))
    /\ basis' = basis @@ (SessionId(k) :> thr[k].partner.att)
    /\ thr' = [thr EXCEPT ![k].pc = "active"]
    /\ UNCHANGED <<waiting_queue, active_sessions, events, deleted, clock, tmr, nextOp,
                   arrivals>>

\* active_sessions[session_id] = {...}
handle_join_queue_Active(k) ==
    /\ thr[k].kind = "join" /\ thr[k].pc = "active" /\ MayStepThr(k)
    /\ active_sessions' = active_sessions @@
           (SessionId(k) :> PairRecord(thr[k].partner, thr[k].user,
                                       sessions[SessionId(k)].room_name,
                                       sessions[SessionId(k)].room_url))
    /\ thr' = [thr EXCEPT ![k].pc = "emit_partner"]
    /\ UNCHANGED <<waiting_queue, sessions, events, deleted, clock, tmr, nextOp,
                   arrivals, basis>>

\* socketio.emit('matched', {...}, room=partner['sid'])
handle_join_queue_EmitPartner(k) ==
    /\ thr[k].kind = "join" /\ thr[k].pc = "emit_partner" /\ MayStepThr(k)
    /\ events' = events \cup
           {Event(thr[k].partner.sid, "matched", k, thr[k].partner.att,
                  PartnerPayload(SessionId(k), sessions[SessionId(k)].room_url,
                                 Username(thr[k].user)))}
    /\ thr' = [thr EXCEPT ![k].pc = "emit_self"]
    /\ UNCHANGED <<waiting_queue, active_sessions, sessions, deleted, clock, tmr,
                   nextOp, arrivals, basis>>

\* emit('matched', {...})   to the caller
handle_join_queue_EmitSelf(k) ==
    /\ thr[k].kind = "join" /\ thr[k].pc = "emit_self" /\ MayStepThr(k)
    /\ events' = events \cup
           {Event(thr[k].sid, "matched", k, k,
                  SelfPayload(SessionId(k), sessions[SessionId(k)].room_url,
                              thr[k].partner))}
    /\ thr' = [thr EXCEPT ![k] = Finish(thr[k], "none")]
    /\ UNCHANGED <<waiting_queue, active_sessions, sessions, deleted, clock, tmr,
                   nextOp, arrivals, basis>>

\* else: waiting_queue.append(  -- the deque object is loaded, the dict is built
handle_join_queue_Load(k) ==
    /\ thr[k].kind = "join" /\ thr[k].pc = "load" /\ MayStepThr(k)
    /\ thr' = [thr EXCEPT ![k].pc = "append", ![k].stale = FALSE]
    /\ UNCHANGED <<waiting_queue, active_sessions, sessions, events, deleted, clock,
                   tmr, nextOp, arrivals, basis>>

\* .append({...}) on the deque object loaded: lost if the global was rebound
handle_join_queue_Append(k) ==
    /\ thr[k].kind = "join" /\ thr[k].pc = "append" /\ MayStepThr(k)
    /\ arrivals' = arrivals + 1
    /\ waiting_queue' =
           IF thr[k].stale THEN waiting_queue
           ELSE AppendRight(waiting_queue,
                            Entry(thr[k].user, thr[k].sid, k, arrivals + 1))
    /\ thr' = [thr EXCEPT ![k].pc = "emit_waiting", ![k].stale = FALSE]
    /\ UNCHANGED <<active_sessions, sessions, events, deleted, clock, tmr, nextOp,
                   basis>>

\* emit('waiting', {'position': len(waiting_queue)});
\* socketio.start_background_task(check_timeout, user_id, request.sid)
handle_join_queue_EmitWaiting(k) ==
    /\ thr[k].kind = "join" /\ thr[k].pc = "emit_waiting" /\ MayStepThr(k)
    /\ events' = events \cup
           {Event(thr[k].sid, "waiting", k, k, [position |-> Len(waiting_queue)])}
    /\ tmr' = [tmr EXCEPT ![k].pc = "sleep"]
    /\ thr' = [thr EXCEPT ![k] = Finish(thr[k], "none")]
    /\ UNCHANGED <<waiting_queue, active_sessions, sessions, deleted, clock, nextOp,
                   arrivals, basis>>

\* ---------------------------------------------------------- check_timeout
\* check_timeout(user_id, sid) of the join call k: user_id and sid are
\* thr[k].user and thr[k].sid.

\* time.sleep(8) is over; user_in_queue = any(...); if user_in_queue:
check_timeout_Wake(K, k) ==
    /\ tmr[k].pc = "sleep"
    /\ InFlight < K
    /\ UrgentThr = {} /\ UrgentTmr = {}
    /\ tmr' = [tmr EXCEPT ![k] =
                  IF UserInQueue(waiting_queue, thr[k].user)
                  THEN [tmr[k] EXCEPT !.pc = "t_begin", !.user_in_queue = TRUE,
                                      !.seen = FirstOf(waiting_queue, thr[k].user).att]
                  ELSE FinishTmr(tmr[k])]
    /\ UNCHANGED <<waiting_queue, active_sessions, sessions, events, deleted, clock,
                   thr, nextOp, arrivals, basis>>

\* [u for u in waiting_queue if u['user_id'] != user_id]
check_timeout_Filter(k) ==
    /\ tmr[k].pc = "t_begin" /\ MayStepTmr(k)
    /\ tmr' = [tmr EXCEPT ![k].pc = "t_store",
                          ![k].newq = FilterOut(waiting_queue, thr[k].user)]
    /\ UNCHANGED <<waiting_queue, active_sessions, sessions, events, deleted, clock,
                   thr, nextOp, arrivals, basis>>

\* waiting_queue = deque(...)
check_timeout_Store(k) ==
    /\ tmr[k].pc = "t_store" /\ MayStepTmr(k)
    /\ waiting_queue' = tmr[k].newq
    /\ thr' = Rebound(thr)
    /\ tmr' = [tmr EXCEPT ![k].pc = "t_reg", ![k].newq = <<>>]
    /\ UNCHANGED <<active_sessions, sessions, events, deleted, clock, nextOp, arrivals,
                   basis>>

\* session_id, room_name, create_daily_room, VoiceSession(...), db.session.commit()
check_timeout_Register(k) ==
    /\ tmr[k].pc = "t_reg" /\ MayStepTmr(k)
    /\ \E outcome \in {"ok", "error"} :
          LET room == create_daily_room(RoomName("ai", k), outcome)
          IN  sessions' = sessions @@
                  (SessionId(k) :> VoiceSession(SessionId(k), room, thr[k].user,
                                                NoUser, TRUE))
    /\ basis' = basis @@ (SessionId(k) :> tmr[k].seen)
    /\ tmr' = [tmr EXCEPT ![k].pc = "t_active"]
    /\ UNCHANGED <<waiting_queue, active_sessions, events, deleted, clock, thr, nextOp,
                   arrivals>>

\* active_sessions[session_id] = {..., 'is_ai': True}
check_timeout_Active(k) ==
    /\ tmr[k].pc = "t_active" /\ MayStepTmr(k)
    /\ active_sessions' = active_sessions @@
           (SessionId(k) :> AiRecord(thr[k].user, sessions[SessionId(k)].room_name,
                                     sessions[SessionId(k)].room_url))
    /\ tmr' = [tmr EXCEPT ![k].pc = "t_emit"]
    /\ UNCHANGED <<waiting_queue, sessions, events, deleted, clock, thr, nextOp,
                   arrivals, basis>>

\* socketio.emit('matched', {...}, room=sid)
check_timeout_Emit(k) ==
    /\ tmr[k].pc = "t_emit" /\ MayStepTmr(k)
    /\ events' = events \cup
           {Event(thr[k].sid, "matched", k, tmr[k].seen,
                  AiPayload(SessionId(k), sessions[SessionId(k)].room_url))}
    /\ tmr' = [tmr EXCEPT ![k] = FinishTmr(tmr[k])]
    /\ UNCHANGED <<waiting_queue, active_sessions, sessions, deleted, clock, thr,
                   nextOp, arrivals, basis>>

\* ------------------------------------------------------ handle_cancel_search

\* [u for u in waiting_queue if u['user_id'] != current_user.id]
handle_cancel_search_Start(K, u, c) ==
    /\ MayStart(K, "cancel", u, c)
    /\ thr' = [thr EXCEPT ![nextOp] =
                  [NewThr("cancel", u, c, "store") EXCEPT
                      !.newq = FilterOut(waiting_queue, u),
                      !.seen = IF UserInQueue(waiting_queue, u)
                               THEN FirstOf(waiting_queue, u).att ELSE NoAttempt]]
    /\ nextOp' = nextOp + 1
    /\ UNCHANGED <<waiting_queue, active_sessions, sessions, events, deleted, clock,
                   tmr, arrivals, basis>>

handle_cancel_search_Store(k) ==
    /\ thr[k].kind = "cancel" /\ thr[k].pc = "store" /\ MayStepThr(k)
    /\ waiting_queue' = thr[k].newq
    /\ thr' = [Rebound(thr) EXCEPT ![k].pc = "emit_cancelled", ![k].newq = <<>>]
    /\ UNCHANGED <<active_sessions, sessions, events, deleted, clock, tmr, nextOp,
                   arrivals, basis>>

\* emit('search_cancelled')
handle_cancel_search_Emit(k) ==
    /\ thr[k].kind = "cancel" /\ thr[k].pc = "emit_cancelled" /\ MayStepThr(k)
    /\ events' = events \cup
           {Event(thr[k].sid, "search_cancelled", k, thr[k].seen, <<>>)}
    /\ thr' = [thr EXCEPT ![k] = Finish(thr[k], "none")]
    /\ UNCHANGED <<waiting_queue, active_sessions, sessions, deleted, clock, tmr,
                   nextOp, arrivals, basis>>

\* --------------------------------------------------------- handle_disconnect

handle_disconnect_Start(K, u, c) ==
    /\ MayStart(K, "disconnect", u, c)
    /\ thr' = [thr EXCEPT ![nextOp] =
                  [NewThr("disconnect", u, c, "store") EXCEPT
                      !.newq = FilterOut(waiting_queue, u)]]
    /\ nextOp' = nextOp + 1
    /\ UNCHANGED <<waiting_queue, active_sessions, sessions, events, deleted, clock,
                   tmr, arrivals, basis>>

handle_disconnect_Store(k) ==
    /\ thr[k].kind = "disconnect" /\ thr[k].pc = "store" /\ MayStepThr(k)
    /\ waiting_queue' = thr[k].newq
    /\ thr' = [Rebound(thr) EXCEPT ![k] = Finish(thr[k], "none")]
    /\ UNCHANGED <<active_sessions, sessions, events, deleted, clock, tmr, nextOp,
                   arrivals, basis>>

\* -------------------------------------------------------------------- logout
\* the /logout route: an HTTP request of the user's browser session

logout_Start(K, u, c) ==
    /\ MayStart(K, "logout", u, c)
    /\ thr' = [thr EXCEPT ![nextOp] =
                  [NewThr("logout", u, c, "store") EXCEPT
                      !.newq = FilterOut(waiting_queue, u)]]
    /\ nextOp' = nextOp + 1
    /\ UNCHANGED <<waiting_queue, active_sessions, sessions, events, deleted, clock,
                   tmr, arrivals, basis>>

logout_Store(k) ==
    /\ thr[k].kind = "logout" /\ thr[k].pc = "store" /\ MayStepThr(k)
    /\ waiting_queue' = thr[k].newq
    /\ thr' = [Rebound(thr) EXCEPT ![k] = Finish(thr[k], "none")]
    /\ UNCHANGED <<active_sessions, sessions, events, deleted, clock, tmr, nextOp,
                   arrivals, basis>>

\* ------------------------------------------------------ handle_end_session

\* session ids a client can know: those some `matched` event carried
Published == {e.payload.session_id : e \in {x \in events : x.name = "matched"}}

\* what a client may send as data['session_id']
EndArgs == Published \cup {NoSession, Missing}

\* a faulty variant: the room release is requested outside `if session_obj:`
handle_end_session_Start_Unguarded(K, u, c, sid) ==
    /\ MayStart(K, "end", u, c)
    /\ IF sid # Missing /\ sid \in DOMAIN sessions
       THEN /\ sessions' = [sessions EXCEPT ![sid].status = "ended",
                                            ![sid].ended_at = clock]
            /\ clock' = clock + 1
            /\ thr' = [thr EXCEPT ![nextOp] =
                          [NewThr("end", u, c, "e_delete") EXCEPT !.arg = sid]]
            /\ UNCHANGED deleted
       ELSE /\ thr' = [thr EXCEPT ![nextOp] =
                          [NewThr("end", u, c, "e_emit") EXCEPT !.arg = sid]]
            /\ deleted' = IF RoomName("room", sid) \in DOMAIN deleted
                           THEN [deleted EXCEPT ![RoomName("room", sid)] = @ + 1]
                           ELSE deleted @@ (RoomName("room", sid) :> 1)
            /\ UNCHANGED <<sessions, clock>>
    /\ nextOp' = nextOp + 1
    /\ UNCHANGED <<waiting_queue, active_sessions, events, tmr, arrivals, basis>>

\* a faulty variant: end_session on an ended session makes it active again
handle_end_session_Start_Toggle(K, u, c, sid) ==
    /\ MayStart(K, "end", u, c)
    /\ IF sid # Missing /\ sid \in DOMAIN sessions
       THEN /\ sessions' = [sessions EXCEPT
                               ![sid].status = IF @ = "ended" THEN "active" ELSE "ended",
                               ![sid].ended_at = clock]
            /\ clock' = clock + 1
            /\ thr' = [thr EXCEPT ![nextOp] =
                          [NewThr("end", u, c, "e_delete") EXCEPT !.arg = sid]]
       ELSE /\ thr' = [thr EXCEPT ![nextOp] =
                          [NewThr("end", u, c, "e_emit") EXCEPT !.arg = sid]]
            /\ UNCHANGED <<sessions, clock>>
    /\ nextOp' = nextOp + 1
    /\ UNCHANGED <<waiting_queue, active_sessions, events, deleted, tmr, arrivals,
                   basis>>

\* a faulty variant: only a participant of the session may end it
handle_end_session_Start_ParticipantOnly(K, u, c, sid) ==
    /\ MayStart(K, "end", u, c)
    /\ IF /\ sid # Missing /\ sid \in DOMAIN sessions
          /\ u \in {sessions[sid].user1_id, sessions[sid].user2_id}
       THEN /\ sessions' = [sessions EXCEPT ![sid].status = "ended",
                                            ![sid].ended_at = clock]
            /\ clock' = clock + 1
            /\ thr' = [thr EXCEPT ![nextOp] =
                          [NewThr("end", u, c, "e_delete") EXCEPT !.arg = sid]]
       ELSE /\ thr' = [thr EXCEPT ![nextOp] =
                          [NewThr("end", u, c, "e_emit") EXCEPT !.arg = sid]]
            /\ UNCHANGED <<sessions, clock>>
    /\ nextOp' = nextOp + 1
    /\ UNCHANGED <<waiting_queue, active_sessions, events, deleted, tmr, arrivals,
                   basis>>

\* session_id = data.get('session_id'); the query; status, ended_at; commit
handle_end_session_Start(K, u, c, sid) ==
    /\ MayStart(K, "end", u, c)
    /\ IF sid # Missing /\ sid \in DOMAIN sessions
       THEN /\ sessions' = [sessions EXCEPT ![sid].status = "ended",
                                            ![sid].ended_at = clock]
            /\ clock' = clock + 1
            /\ thr' = [thr EXCEPT ![nextOp] =
                          [NewThr("end", u, c, "e_delete") EXCEPT !.arg = sid]]
       ELSE /\ thr' = [thr EXCEPT ![nextOp] =
                          [NewThr("end", u, c, "e_emit") EXCEPT !.arg = sid]]
            /\ UNCHANGED <<sessions, clock>>
    /\ nextOp' = nextOp + 1
    /\ UNCHANGED <<waiting_queue, active_sessions, events, deleted, tmr, arrivals,
                   basis>>

\* delete_daily_room(session_obj.room_name): the request, and whether it worked
handle_end_session_Delete(k) ==
    /\ thr[k].kind = "end" /\ thr[k].pc = "e_delete" /\ MayStepThr(k)
    /\ LET rn == sessions[thr[k].arg].room_name
       IN  deleted' = IF rn \in DOMAIN deleted
                      THEN [deleted EXCEPT ![rn] = @ + 1]
                      ELSE deleted @@ (rn :> 1)
    /\ \E ok \in BOOLEAN : thr' = [thr EXCEPT ![k].pc = "e_check", ![k].ret = ok]
    /\ UNCHANGED <<waiting_queue, active_sessions, sessions, events, clock, tmr,
                   nextOp, arrivals, basis>>

\* a faulty variant: the registry entry is never taken out
handle_end_session_Check_Skip(k) ==
    /\ thr[k].kind = "end" /\ thr[k].pc = "e_check" /\ MayStepThr(k)
    /\ thr' = [thr EXCEPT ![k].pc = "e_emit"]
    /\ UNCHANGED <<waiting_queue, active_sessions, sessions, events, deleted, clock,
                   tmr, nextOp, arrivals, basis>>

\* if session_id in active_sessions:
handle_end_session_Check(k) ==
    /\ thr[k].kind = "end" /\ thr[k].pc = "e_check" /\ MayStepThr(k)
    /\ thr' = [thr EXCEPT ![k].pc = IF thr[k].arg \in DOMAIN active_sessions
                                    THEN "e_del" ELSE "e_emit"]
    /\ UNCHANGED <<waiting_queue, active_sessions, sessions, events, deleted, clock,
                   tmr, nextOp, arrivals, basis>>

\* del active_sessions[session_id]   (KeyError if it is gone)
handle_end_session_Del(k) ==
    /\ thr[k].kind = "end" /\ thr[k].pc = "e_del" /\ MayStepThr(k)
    /\ IF thr[k].arg \in DOMAIN active_sessions
       THEN /\ active_sessions' = RemoveKey(active_sessions, thr[k].arg)
            /\ thr' = [thr EXCEPT ![k].pc = "e_emit"]
       ELSE /\ thr' = [thr EXCEPT ![k] = Finish(thr[k], "KeyError")]
            /\ UNCHANGED active_sessions
    /\ UNCHANGED <<waiting_queue, sessions, events, deleted, clock, tmr, nextOp,
                   arrivals, basis>>

\* a faulty variant: socketio.emit('session_ended') without a room, a broadcast
handle_end_session_Emit_Broadcast(k) ==
    /\ thr[k].kind = "end" /\ thr[k].pc = "e_emit" /\ MayStepThr(k)
    /\ events' = events \cup
           {Event(Sid(u, c), "session_ended", k, NoAttempt, <<>>) :
                u \in Users, c \in Conns}
    /\ thr' = [thr EXCEPT ![k] = Finish(thr[k], "none")]
    /\ UNCHANGED <<waiting_queue, active_sessions, sessions, deleted, clock, tmr,
                   nextOp, arrivals, basis>>

\* emit('session_ended')
handle_end_session_Emit(k) ==
    /\ thr[k].kind = "end" /\ thr[k].pc = "e_emit" /\ MayStepThr(k)
    /\ events' = events \cup {Event(thr[k].sid, "session_ended", k, NoAttempt, <<>>)}
    /\ thr' = [thr EXCEPT ![k] = Finish(thr[k], "none")]
    /\ UNCHANGED <<waiting_queue, active_sessions, sessions, deleted, clock, tmr,
                   nextOp, arrivals, basis>>

\* ------------------------------------------------------- specifications

NextK(K) ==
    \/ \E u \in Users : \E c \in Conns : handle_join_queue_Start(K, u, c)
    \/ \E k \in Ops : handle_join_queue_Store(k)
    \/ \E k \in Ops : handle_join_queue_Len(k)
    \/ \E k \in Ops : handle_join_queue_Pop(k)
    \/ \E k \in Ops : handle_join_queue_Register(k)
    \/ \E k \in Ops : handle_join_queue_Active(k)
    \/ \E k \in Ops : handle_join_queue_EmitPartner(k)
    \/ \E k \in Ops : handle_join_queue_EmitSelf(k)
    \/ \E k \in Ops : handle_join_queue_Load(k)
    \/ \E k \in Ops : handle_join_queue_Append(k)
    \/ \E k \in Ops : handle_join_queue_EmitWaiting(k)
    \/ \E k \in Ops : check_timeout_Wake(K, k)
    \/ \E k \in Ops : check_timeout_Filter(k)
    \/ \E k \in Ops : check_timeout_Store(k)
    \/ \E k \in Ops : check_timeout_Register(k)
    \/ \E k \in Ops : check_timeout_Active(k)
    \/ \E k \in Ops : check_timeout_Emit(k)
    \/ \E u \in Users : \E c \in Conns : handle_cancel_search_Start(K, u, c)
    \/ \E k \in Ops : handle_cancel_search_Store(k)
    \/ \E k \in Ops : handle_cancel_search_Emit(k)
    \/ \E u \in Users : \E c \in Conns : handle_disconnect_Start(K, u, c)
    \/ \E k \in Ops : handle_disconnect_Store(k)
    \/ \E u \in Users : \E c \in Conns : logout_Start(K, u, c)
    \/ \E k \in Ops : logout_Store(k)
    \/ \E u \in Users : \E c \in Conns : \E sid \in EndArgs :
           handle_end_session_Start(K, u, c, sid)
    \/ \E k \in Ops : handle_end_session_Delete(k)
    \/ \E k \in Ops : handle_end_session_Check(k)
    \/ \E k \in Ops : handle_end_session_Del(k)
    \/ \E k \in Ops : handle_end_session_Emit(k)

\* the server as it runs: threads interleave at every step
Next == NextK(MaxConc)
Spec == Init /\ [][Next]_vars

\* one handler or timeout task at a time, each run to completion
NextAtomic == NextK(1)
SpecAtomic == Init /\ [][NextAtomic]_vars

\* ------------------------------------------------------------ properties

Matched(e) == e.name = "matched"

\* the sessions created on waiting entry (attempt) a
SessionsOn(a) == {s \in DOMAIN sessions : basis[s] = a}

\* join call k put its caller in the waiting state
Enqueued(k) == \E e \in events : e.name = "waiting" /\ e.op = k

\* every thread has run to its end and no timer is pending
Quiescent == InFlight = 0 /\ \A k \in Ops : tmr[k].pc # "sleep"

\* C1: timeout race -- no waiting entry gets both a human session and a
\* fallback (AI) session: never both a pairing and a fallback for one attempt.
C1_TimeoutRaceExactlyOne ==
    \A a \in Ops :
        ~ \E s1, s2 \in SessionsOn(a) :
              sessions[s1].is_ai_session /\ ~sessions[s2].is_ai_session

\* C2: no double-match -- no waiting entry is consumed into two sessions; one
\* session per consumed entry.
C2_NoDoubleMatch ==
    \A a \in Ops : Cardinality(SessionsOn(a)) <= 1

\* C3: guaranteed connection, as the final result of a run -- once every
\* thread and timeout task has finished, every user whose join_queue put them in
\* the waiting state and who never cancelled, disconnected or logged out has
\* been sent a `matched` event for that attempt or a later one.
C3_GuaranteedConnection ==
    Quiescent =>
        \A k \in Ops :
            (/\ Enqueued(k)
             /\ ~ \E j \in Ops : /\ thr[j].user = thr[k].user
                                 /\ thr[j].kind \in {"cancel", "disconnect", "logout"})
            => \E e \in events :
                   Matched(e) /\ e.to[1] = thr[k].user /\ e.att >= k

\* C4: no user is at once in the waiting queue and a participant of a session
\* held in active_sessions.
C4_WaitingXorInSession ==
    \A u \in Users :
        ~ (/\ UserInQueue(waiting_queue, u)
           /\ \E s \in DOMAIN active_sessions :
                  u \in {active_sessions[s].user1_id, active_sessions[s].user2_id})

\* C5: the waiting queue holds at most one entry per user id.
C5_OneEntryPerUser ==
    \A u \in Users :
        Cardinality({i \in 1 .. Len(waiting_queue) : waiting_queue[i].user_id = u}) <= 1

\* C6: idempotent termination -- a session's room release is requested at most
\* once, and once a session is `ended` no end_session changes its row again
\* (status, ended_at).
C6_EndSessionIdempotent ==
    /\ [](\A rn \in DOMAIN deleted : deleted[rn] <= 1)
    /\ [][\A s \in DOMAIN sessions :
              sessions[s].status = "ended" => sessions'[s] = sessions[s]]_vars

\* C7: per queue attempt at most one `waiting`, one `matched` and one
\* `search_cancelled` event.
C7_OneEventPerAttempt ==
    \A a \in Ops : \A n \in {"waiting", "matched", "search_cancelled"} :
        Cardinality({e \in events : e.name = n /\ e.att = a}) <= 1

\* entries in arrival order (the order of the append calls)
InArrivalOrder(q) ==
    \A i, j \in 1 .. Len(q) : i < j => q[i].seq < q[j].seq

\* C8: FIFO pairing -- a pairing pops the queue head, which is the entry that
\* arrived earliest among those waiting; and the queue is in arrival order in
\* every state, whatever cancel, disconnect, logout and timeouts removed.
C8_FifoPairing ==
    /\ [] InArrivalOrder(waiting_queue)
    /\ [][\A k \in Ops :
              (thr[k].pc = "pop" /\ thr'[k].pc = "reg")
              => /\ thr'[k].partner = Head(waiting_queue)
                 /\ \A i \in 1 .. Len(waiting_queue) :
                        thr'[k].partner.seq <= waiting_queue[i].seq]_vars

\* C8 witness: a pairing has popped its partner while a later arrival waits on
C8_Witness ==
    \E k \in Ops :
        /\ thr[k].pc = "reg"
        /\ Len(waiting_queue) >= 1
        /\ thr[k].partner.seq < waiting_queue[1].seq

\* the `matched` events that carry session s
MatchedFor(s) == {e \in events : Matched(e) /\ e.payload.session_id = s}

\* join call k ran to its end and paired its caller
Paired(k) ==
    /\ thr[k].kind = "join" /\ thr[k].pc = "done" /\ thr[k].exc = "none"
    /\ ~Enqueued(k)

\* C9: scenario A -- a join that enqueues (the queue held nobody else) sends its
\* caller `waiting` with position 1, the queue length; a later join by another
\* user creates one non-fallback session of the waiting user and the caller and
\* sends each a `matched` event with is_ai false, the same session id and room
\* url, and the other's name.
C9_ScenarioA ==
    /\ [](\A e \in events :
              e.name = "waiting" => e.payload.position = 1 /\ e.to = thr[e.op].sid)
    /\ [][\A k \in Ops :
              (thr[k].pc = "emit_waiting" /\ thr'[k].pc = "done")
              => /\ Len(waiting_queue') = 1
                 /\ waiting_queue'[1].user_id = thr[k].user]_vars
    /\ [](\A k \in Ops :
              Paired(k) =>
                 LET s == sessions[SessionId(k)]
                     a == basis[SessionId(k)]
                 IN  /\ ~s.is_ai_session
                     /\ s.status \in {"active", "ended"}
                     /\ s.user1_id = thr[a].user
                     /\ s.user2_id = thr[k].user
                     /\ s.user1_id # s.user2_id
                     /\ SessionsOn(a) = {SessionId(k)}
                     /\ MatchedFor(SessionId(k)) =
                          {Event(thr[a].sid, "matched", k, a,
                                 [session_id |-> SessionId(k), room_url |-> s.room_url,
                                  is_ai |-> FALSE,
                                  partner_name |-> Username(thr[k].user)]),
                           Event(thr[k].sid, "matched", k, k,
                                 [session_id |-> SessionId(k), room_url |-> s.room_url,
                                  is_ai |-> FALSE,
                                  partner_name |-> Username(thr[a].user)])})

\* C9 witness: user 1 joined first and waits at position 1, user 2 joined next
\* and both have their `matched` event
C9_Witness ==
    /\ thr[1].kind = "join" /\ thr[1].user = 1 /\ Enqueued(1)
    /\ thr[2].kind = "join" /\ thr[2].user = 2 /\ Paired(2)
    /\ Cardinality(MatchedFor(SessionId(2))) = 2

\* the hypotheses of scenario B for join call k: no other join_queue call, and
\* no cancel_search, disconnect or logout by the caller
Alone(k) ==
    /\ thr[k].kind = "join"
    /\ \A j \in Ops \ {k} :
           /\ thr[j].kind # "join"
           /\ thr[j].kind \in {"cancel", "disconnect", "logout"}
                  => thr[j].user # thr[k].user

\* C10: scenario B -- a timeout that finds its user waiting removes the user
\* from the queue and registers a session with is_ai true and no second
\* participant; and a user who joined an empty queue, with no other join and no
\* cancel, disconnect or logout of their own, has once the timeout task is over
\* no queue entry, exactly one session (is_ai true, no second participant) and
\* exactly one `matched` event, with is_ai true and no partner name.
C10_ScenarioB ==
    /\ [][\A k \in Ops :
              (tmr[k].pc = "t_store" /\ tmr'[k].pc = "t_reg")
              => ~UserInQueue(waiting_queue', thr[k].user)]_vars
    /\ [][\A k \in Ops :
              (tmr[k].pc = "t_active" /\ tmr'[k].pc = "t_emit")
              => /\ SessionId(k) \in DOMAIN active_sessions'
                 /\ active_sessions'[SessionId(k)].user1_id = thr[k].user
                 /\ active_sessions'[SessionId(k)].user2_id = NoUser
                 /\ active_sessions'[SessionId(k)].is_ai]_vars
    /\ [](\A k \in Ops :
              (Alone(k) /\ Enqueued(k) /\ Quiescent) =>
                 /\ ~UserInQueue(waiting_queue, thr[k].user)
                 /\ tmr[k].user_in_queue
                 /\ \E s \in DOMAIN sessions :
                        /\ SessionsOn(k) = {s}
                        /\ sessions[s].is_ai_session
                        /\ sessions[s].user1_id = thr[k].user
                        /\ sessions[s].user2_id = NoUser
                        /\ MatchedFor(s) =
                             {Event(thr[k].sid, "matched", k, k,
                                    [session_id |-> s, room_url |-> sessions[s].room_url,
                                     is_ai |-> TRUE])}
                        /\ {x \in events : Matched(x) /\ x.to[1] = thr[k].user}
                               = MatchedFor(s))

\* C10 witness: user 1 joined an empty queue, nobody else called, the timeout
\* found the user waiting and has finished
C10_Witness ==
    /\ nextOp = 2 /\ Enqueued(1)
    /\ tmr[1].pc = "done" /\ tmr[1].user_in_queue
    /\ sessions[SessionId(1)].is_ai_session

\* the waiting entries that a completed cancel_search found and removed
CancelledAttempts ==
    {e.att : e \in {x \in events : x.name = "search_cancelled" /\ x.att # NoAttempt}}

\* C11: scenario C -- a cancel_search by a waiting user ends with the user out
\* of the queue and `search_cancelled` sent to the caller; from then on the
\* cancelled entry is never in the queue again and no session (pairing by a
\* later join, or fallback) is ever created on it.
C11_ScenarioC ==
    /\ [][\A k \in Ops :
              (thr[k].pc = "emit_cancelled" /\ thr'[k].pc = "done")
              => /\ ~UserInQueue(waiting_queue', thr[k].user)
                 /\ \E e \in events' \ events :
                        /\ e.name = "search_cancelled"
                        /\ e.to = thr[k].sid]_vars
    /\ [](\A a \in CancelledAttempts :
              /\ SessionsOn(a) = {}
              /\ \A i \in 1 .. Len(waiting_queue) : waiting_queue[i].att # a)

\* user u has been sent a `matched` event that carries session s
SentMatched(s, u) == \E e \in MatchedFor(s) : e.to[1] = u

\* C12: transactional pairing and publish order -- every `matched` event is
\* emitted when its session's row (with the room it names) exists and the
\* session has been registered in active_sessions; and in no state has one
\* participant of a human session been sent `matched` for it while the other
\* has not and is in the waiting queue.
C12_PublishOrder ==
    /\ [][\A e \in events' \ events :
              Matched(e) =>
                 LET s == e.payload.session_id
                 IN  /\ s \in DOMAIN sessions
                     /\ sessions[s].room_url = e.payload.room_url
                     /\ s \in DOMAIN active_sessions \/ sessions[s].status = "ended"]_vars
    /\ [](\A s \in DOMAIN sessions :
              ~sessions[s].is_ai_session =>
                 \A u, v \in {sessions[s].user1_id, sessions[s].user2_id} :
                     ~ (/\ u # v
                        /\ SentMatched(s, u)
                        /\ ~SentMatched(s, v)
                        /\ UserInQueue(waiting_queue, v)))

\* the sessions whose room is room_name rn
SessionsOfRoom(rn) == {s \in DOMAIN sessions : sessions[s].room_name = rn}

\* C13: a session's room is released at most once; a release is requested only
\* for a session whose status is already `ended`; the room of a session that
\* was never ended is never released.
C13_RoomReleasedOnce ==
    /\ [](\A rn \in DOMAIN deleted :
              /\ deleted[rn] <= 1
              /\ \A s \in SessionsOfRoom(rn) : sessions[s].status = "ended")
    /\ [][\A k \in Ops :
              (thr[k].pc = "e_delete" /\ thr'[k].pc = "e_check")
              => sessions[thr[k].arg].status = "ended"]_vars

\* C14: session lifecycle is linear -- a session row is created `active`, is
\* never deleted, its status only ever changes from `active` to `ended`, and a
\* session that is `ended` and out of active_sessions is never put back.
C14_LifecycleLinear ==
    [][/\ \A s \in DOMAIN sessions' \ DOMAIN sessions : sessions'[s].status = "active"
       /\ \A s \in DOMAIN sessions :
              /\ s \in DOMAIN sessions'
              /\ sessions'[s].status # sessions[s].status
                     => sessions[s].status = "active" /\ sessions'[s].status = "ended"
              /\ (sessions[s].status = "ended" /\ s \notin DOMAIN active_sessions)
                     => s \notin DOMAIN active_sessions']_vars

\* C14 witness: a session was ended and removed from active_sessions, and a
\* later end_session on it or a later join_queue has run to its end
C14_Witness ==
    \E k, j \in Ops :
        /\ k < j
        /\ thr[k].kind = "end" /\ thr[k].pc = "done"
        /\ thr[k].arg \in DOMAIN sessions
        /\ sessions[thr[k].arg].status = "ended"
        /\ thr[k].arg \notin DOMAIN active_sessions
        /\ thr[j].kind \in {"end", "join"} /\ thr[j].pc = "done"

\* the room name the creator of session s asked for
RequestedRoom(s) == RoomName(IF sessions[s].is_ai_session THEN "ai" ELSE "room", s)

\* f"https://{DAILY_DOMAIN}.daily.co/{room_name}", and room_data['url']
FallbackUrl(rn) == <<"https", "DAILY_DOMAIN", rn>>
ApiUrl(rn) == <<"api", rn>>

\* the thread that creates session s has run to its end
CreatorDone(s) ==
    IF sessions[s].is_ai_session THEN tmr[s].pc = "done" ELSE thr[s].pc = "done"

\* C15: room provisioning failure never aborts a match -- every session, on
\* either path, has the room name that was asked for and either the URL the
\* API returned or the fallback URL of that name; once its creator has
\* finished it has been registered and its `matched` events (two for a
\* pairing, one for a fallback) carry that URL; every consumed waiting entry
\* has its session; and no `error` event is ever sent.
C15_RoomFailureTolerated ==
    /\ \A e \in events : e.name # "error"
    /\ \A s \in DOMAIN sessions :
           /\ sessions[s].room_name = RequestedRoom(s)
           /\ sessions[s].room_url \in
                  {ApiUrl(RequestedRoom(s)), FallbackUrl(RequestedRoom(s))}
           /\ CreatorDone(s) =>
                 /\ s \in DOMAIN active_sessions \/ sessions[s].status = "ended"
                 /\ Cardinality(MatchedFor(s)) = IF sessions[s].is_ai_session THEN 1 ELSE 2
                 /\ \A e \in MatchedFor(s) : e.payload.room_url = sessions[s].room_url
    /\ \A k \in Ops :
           /\ (thr[k].kind = "join" /\ thr[k].pc = "done" /\ thr[k].exc = "none"
                  /\ ~Enqueued(k)) => SessionId(k) \in DOMAIN sessions
           /\ (tmr[k].pc = "done" /\ tmr[k].user_in_queue)
                  => SessionId(k) \in DOMAIN sessions

\* C15 witness: room creation failed on both paths, and both creators have
\* finished with their sessions registered under the fallback URL
C15_Witness ==
    \E s, t \in DOMAIN sessions :
        /\ sessions[s].is_ai_session /\ ~sessions[t].is_ai_session
        /\ CreatorDone(s) /\ CreatorDone(t)
        /\ sessions[s].room_url = FallbackUrl(RequestedRoom(s))
        /\ sessions[t].room_url = FallbackUrl(RequestedRoom(t))
        /\ MatchedFor(s) # {} /\ MatchedFor(t) # {}

\* C16: room release failure is not fatal -- an end_session whose room deletion
\* failed (delete_daily_room returned False) goes on and ends without an
\* exception, with the session `ended` and out of active_sessions and
\* `session_ended` sent to the caller.
C16_ReleaseFailureNotFatal ==
    [][\A k \in Ops :
           (thr[k].kind = "end" /\ thr[k].pc \in {"e_check", "e_del", "e_emit"}
               /\ ~thr[k].ret /\ thr'[k].pc = "done")
           => /\ thr'[k].exc = "none"
              /\ sessions'[thr[k].arg].status = "ended"
              /\ thr[k].arg \notin DOMAIN active_sessions'
              /\ \E e \in events' \ events :
                     e.name = "session_ended" /\ e.to = thr[k].sid]_vars

\* C17: disconnect handling -- the rebind of a disconnect (or logout) of user U
\* leaves the queue as it was without U's entries, the others in their order,
\* and no step of a disconnect emits an event or changes active_sessions or a
\* session row.
C17_DisconnectFrame ==
    [][\A k \in Ops :
           (thr[k].kind \in {"disconnect", "logout"} /\ thr[k].pc = "store"
               /\ thr'[k].pc = "done")
           => /\ waiting_queue' = FilterOut(waiting_queue, thr[k].user)
              /\ UNCHANGED <<events, active_sessions, sessions>>]_vars

\* C18: end_session notifies only the calling connection -- every event an
\* end_session call emits is `session_ended` to the caller's own sid.
C18_EndSessionNotifiesCaller ==
    /\ [][\A k \in Ops :
              (thr[k].kind = "end" /\ thr'[k] # thr[k])
              => \A e \in events' \ events :
                     e.name = "session_ended" /\ e.to = thr[k].sid]_vars
    /\ [](\A e \in events :
              (thr[e.op].kind = "end" \/ e.name = "session_ended")
              => e.name = "session_ended" /\ e.to = thr[e.op].sid
                    /\ thr[e.op].kind = "end")

\* C18 witness: one participant of a human pairing has ended the session and
\* been sent `session_ended`; the other participant has been sent none
C18_Witness ==
    \E k \in Ops : \E s \in DOMAIN sessions :
        /\ thr[k].kind = "end" /\ thr[k].pc = "done" /\ thr[k].arg = s
        /\ ~sessions[s].is_ai_session
        /\ sessions[s].user1_id # sessions[s].user2_id
        /\ thr[k].user \in {sessions[s].user1_id, sessions[s].user2_id}
        /\ \E e \in events : e.name = "session_ended" /\ e.to = thr[k].sid
        /\ \A e \in events :
               e.name = "session_ended" => e.to[1] = thr[k].user

\* C19: end_session with a session id that names no session is a no-op -- no
\* step of such a call changes active_sessions, a session row, the waiting
\* queue or the rooms released, and the call goes straight to its emit.
C19_EndUnknownNoOp ==
    [][\A k \in Ops :
           (thr'[k].kind = "end" /\ thr'[k] # thr[k]
               /\ thr'[k].arg \notin DOMAIN sessions)
           => /\ UNCHANGED <<active_sessions, sessions, waiting_queue, deleted>>
              /\ thr'[k].pc \in {"e_emit", "done"}
              /\ thr'[k].exc = "none"]_vars

\* C19 witness: while a session is registered, an end_session that named no
\* session has run to its end
C19_Witness ==
    \E k \in Ops :
        /\ thr[k].kind = "end" /\ thr[k].pc = "done" /\ thr[k].arg = NoSession
        /\ DOMAIN active_sessions # {}
        /\ \E e \in events : e.name = "session_ended" /\ e.op = k

\* C20: cancel_search is not an error, and its rebind leaves the queue as it
\* was without the caller's entries -- unchanged if the caller was not waiting,
\* the other users' entries in their order in every case -- and changes neither
\* active_sessions nor a session row.
C20_CancelFrame ==
    /\ [][\A k \in Ops :
              (thr[k].kind = "cancel" /\ thr[k].pc = "store"
                  /\ thr'[k].pc = "emit_cancelled")
              => /\ waiting_queue' = FilterOut(waiting_queue, thr[k].user)
                 /\ ~UserInQueue(waiting_queue, thr[k].user)
                        => waiting_queue' = waiting_queue
                 /\ UNCHANGED <<active_sessions, sessions>>]_vars
    /\ [](\A k \in Ops : thr[k].kind = "cancel" => thr[k].exc = "none")

\* C21: stale timers never act -- a timeout task creates a fallback session
\* only on the entry it was armed for: the entry a timeout finds and consumes
\* is the one appended by the join_queue call that started the task.
C21_StaleTimersNeverAct ==
    /\ \A k \in Ops : tmr[k].user_in_queue => tmr[k].seen = k
    /\ \A s \in DOMAIN sessions : sessions[s].is_ai_session => basis[s] = s

\* entry e is in queue q
InQueue(q, e) == \E i \in 1 .. Len(q) : q[i] = e

\* C22: atomic queue operations -- in every step an entry leaves the queue only
\* through a filter-and-rebind of its own user (cancel, disconnect, logout,
\* re-join), a timeout of its own user, or a popleft that returns it; and an
\* entry enters the queue only through the append of the join that built it.
C22_AtomicQueueOps ==
    [][/\ \A i \in 1 .. Len(waiting_queue) :
              LET e == waiting_queue[i]
              IN  ~InQueue(waiting_queue', e) =>
                     \/ \E k \in Ops : /\ thr[k].pc = "store" /\ thr'[k].pc # "store"
                                       /\ thr[k].user = e.user_id
                     \/ \E k \in Ops : /\ tmr[k].pc = "t_store" /\ tmr'[k].pc = "t_reg"
                                       /\ thr[k].user = e.user_id
                     \/ \E k \in Ops : /\ thr[k].pc = "pop" /\ thr'[k].pc = "reg"
                                       /\ thr'[k].partner = e
       /\ \A i \in 1 .. Len(waiting_queue') :
              LET e == waiting_queue'[i]
              IN  ~InQueue(waiting_queue, e) =>
                     /\ thr[e.att].pc = "append" /\ thr'[e.att].pc = "emit_waiting"
                     /\ e.seq = arrivals']_vars

\* C23: the fallback `matched` event goes to the sid stored in the waiting
\* entry the timeout consumed (the sid of the join_queue call that built it).
C23_FallbackToEntrySid ==
    \A e \in events :
        (Matched(e) /\ e.payload.is_ai) => e.to = thr[e.att].sid

\* C24: no self-match -- no session has the same user as both participants.
C24_NoSelfMatch ==
    \A s \in DOMAIN sessions : sessions[s].user1_id # sessions[s].user2_id

\* C25: with every handler and timeout task run atomically the waiting queue
\* never holds more than one entry, every `waiting` event carries position 1,
\* and every pairing pops the only waiting entry.
C25_AtomicQueueAtMostOne ==
    /\ [](Len(waiting_queue) <= 1)
    /\ [](\A e \in events : e.name = "waiting" => e.payload.position = 1)
    /\ [][\A k \in Ops :
              (thr[k].pc = "pop" /\ thr'[k].pc # "pop")
              => /\ waiting_queue = <<thr'[k].partner>>
                 /\ waiting_queue' = <<>>
                 /\ thr'[k].pc = "reg"]_vars

\* C25 witness: a user waited at position 1 and a later join popped that entry,
\* and a user is waiting again
C25_Witness ==
    /\ Len(waiting_queue) = 1
    /\ \E k \in Ops : Paired(k)
    /\ \E e \in events : e.name = "waiting" /\ e.payload.position = 1

\* the active_sessions record of s names the participants and room of its row
SameAsRow(s) ==
    /\ s \in DOMAIN sessions
    /\ active_sessions[s].user1_id = sessions[s].user1_id
    /\ active_sessions[s].user2_id = sessions[s].user2_id
    /\ active_sessions[s].room_name = sessions[s].room_name
    /\ active_sessions[s].room_url = sessions[s].room_url

\* an end_session call on s has committed `ended` and not yet passed its del
Ending(s) ==
    \E k \in Ops : /\ thr[k].kind = "end" /\ thr[k].arg = s
                   /\ thr[k].pc \in {"e_delete", "e_check", "e_del"}

\* C26: registry consistency -- every session id in active_sessions has a
\* session row with status `active` and the same participants and room, and
\* every `ended` session is absent from active_sessions.
C26_RegistryConsistency ==
    /\ \A s \in DOMAIN active_sessions : SameAsRow(s) /\ sessions[s].status = "active"
    /\ \A s \in DOMAIN sessions :
           sessions[s].status = "ended" => s \notin DOMAIN active_sessions

\* C26, as the code has it: every session id in active_sessions has a session
\* row with the same participants and room, and the row is `active` except
\* while an end_session call on it is between its commit and its del.
C26_RegistryConsistentOutsideEnd ==
    \A s \in DOMAIN active_sessions :
        /\ SameAsRow(s)
        /\ sessions[s].status = "active" \/ Ending(s)

\* C26 witness: one session is registered and active, another was ended and
\* is out of active_sessions
C26_Witness ==
    \E s, t \in DOMAIN sessions :
        /\ s \in DOMAIN active_sessions /\ sessions[s].status = "active"
        /\ sessions[t].status = "ended" /\ t \notin DOMAIN active_sessions
        /\ ~Ending(t)

\* the end_session call k named an existing session and has returned
EndedBy(k) ==
    /\ thr[k].kind = "end" /\ thr[k].pc = "done"
    /\ thr[k].arg \in DOMAIN sessions

\* the caller of k is one of the two participants of the session it named
ByParticipant(k) ==
    thr[k].user \in {sessions[thr[k].arg].user1_id, sessions[thr[k].arg].user2_id}

\* C27: end_session does not look at who calls it -- for an existing session S
\* a call end_session(S) by any user, participant or not, sets S to `ended`
\* as it starts, and once it has returned S is `ended`, the release of its
\* room has been requested and S is out of active_sessions.
C27_EndSessionAnyCaller ==
    /\ [][\A k \in Ops :
              (/\ nextOp = k /\ nextOp' = k + 1
               /\ thr'[k].kind = "end" /\ thr'[k].arg \in DOMAIN sessions)
              => /\ sessions'[thr'[k].arg].status = "ended"
                 /\ thr'[k].pc = "e_delete"]_vars
    /\ [](\A k \in Ops : EndedBy(k) =>
              /\ sessions[thr[k].arg].status = "ended"
              /\ sessions[thr[k].arg].room_name \in DOMAIN deleted
              /\ thr[k].arg \notin DOMAIN active_sessions)

\* C27 witness: a user who is not a participant ended a session, and it is
\* ended, its room release requested, and it is out of active_sessions
C27_Witness ==
    \E k \in Ops :
        /\ EndedBy(k) /\ ~ByParticipant(k) /\ thr[k].exc = "none"
        /\ sessions[thr[k].arg].status = "ended"
        /\ sessions[thr[k].arg].room_name \in DOMAIN deleted
        /\ thr[k].arg \notin DOMAIN active_sessions

====
